---- MODULE Spec2Model ----
(***************************************************************************)
(* State-machine model of the in-memory message broker of src/main.py:     *)
(* the Storage registry of channels (ready queue + unacked map per         *)
(* channel) and the Broker handlers that turn a request body into a        *)
(* Response.                                                               *)
(*                                                                         *)
(* Representation of Python values:                                        *)
(*   - a str is a TLA+ string; a formatted str (f-string, str(err)) is the *)
(*     tuple of its pieces, the empty str "" being the empty tuple;        *)
(*   - None (the value body.get() gives for an absent or null field) is    *)
(*     the reserved value None below, which is not a str;                  *)
(*   - a dict is a function; an OrderedDict keyed by message id is the     *)
(*     sequence of its values in insertion order;                          *)
(*   - an Optional[Message] (and the Message-or-False of dict.pop) is a    *)
(*     sequence of zero or one Message, truthy when non-empty;             *)
(*   - str(uuid4()) is the next unused element of Uuid.                    *)
(***************************************************************************)
EXTENDS Integers, Sequences, FiniteSets, TLC

\* ------------------------------------------------------------------ bounds
\* Number of Message objects the model lets the broker construct.
MaxMsgs == 3

\* Number of requests the server handles at the same time.
MaxTasks == 2

\* ------------------------------------------------------------ input values
None == "<None>"

\* Channel-name strings a request may carry (the empty string included).
Names == {"a", ""}

\* What body.get('channel') can evaluate to.
ChannelInputs == Names \cup {None}

\* The message payloads (the 'data' dict of a /send body); the broker never
\* inspects a payload, so one non-empty dict stands for all.
Payloads == {[id |-> 1]}

\* Successive results of str(uuid4()): pairwise distinct strings.
Uuid == <<"u1", "u2", "u3", "u4", "u5", "u6", "u7", "u8">>

\* message_id values a /confirm body may carry: every id the broker can issue
\* and one it never issues.
IdInputs == {Uuid[i] : i \in 1..MaxMsgs} \cup {"zz"}

\* Paths that are not keys of the handlers table.
UnknownPaths == {"/", "/delete"}

\* The requests in flight at the same time, and the paths and channel names
\* they carry.
Tasks == 1..MaxTasks
ConcPaths == {"/register", "/send", "/read"}
ConcNames == {"a"}

\* ----------------------------------------------------------- Python helpers
EmptyDict == [k \in {} |-> 0]

\* str(x) / f"{x}" of a channel-name value.
Str(x) == IF x = None THEN "None" ELSE x

\* body.get(key)
Get(body, key) == IF key \in DOMAIN body THEN body[key] ELSE None

\* A request body: the 'channel' key is absent when the name is None.
Body(name, rest) == IF name = None THEN rest ELSE [channel |-> name] @@ rest

\* Removal of the entry at position i of an OrderedDict.
RemoveAt(s, i) == SubSeq(s, 1, i - 1) \o SubSeq(s, i + 1, Len(s))

\* Keys of an OrderedDict of messages.
Ids(s) == {s[i].id : i \in 1..Len(s)}

\* Position of key id in an OrderedDict of messages holding it.
IndexOf(s, id) == CHOOSE i \in 1..Len(s) : s[i].id = id

\* ------------------------------------------------------------------- types
\* class Message: _id from uuid4, data from the body.
Message(id, data) == [id |-> id, data |-> data]

\* class Channel: both collections start as fresh empty OrderedDicts.
Channel(name) == [name |-> name, ready_messages |-> <<>>, unacked_messages |-> <<>>]

\* class Response with its defaults.
Response == [data |-> EmptyDict, message |-> <<>>, error |-> <<>>, message_id |-> <<>>]

\* str(err) of the pydantic ValidationError (a ValueError) that Channel(name=None)
\* raises: its four lines, as pydantic 2.13 prints them.
ChannelValidationError ==
    <<"1 validation error for Channel\nname\n  Input should be a valid string [type=string_type, input_value=None, input_type=NoneType]\n    For further information visit https://errors.pydantic.dev/2.13/v/string_type">>

\* ----------------------------------------------------------------- Storage
\* Each method is an operator on the registry chs (the dict Storage.channels).
\* It yields the registry after the call with what the call returned or raised
\* (raised: TRUE with err = str(err) when the method raises ValueError).

\* Mutant of Storage.register_channel: the membership test left out, so that a
\* second registration replaces the channel.
register_channel_overwrite(chs, channel_name) ==
    IF channel_name = None
    THEN [channels |-> chs, raised |-> TRUE, err |-> ChannelValidationError]
    ELSE [channels |-> (channel_name :> Channel(channel_name)) @@ chs,
          raised |-> FALSE, err |-> <<>>]

\* Storage.register_channel
register_channel(chs, channel_name) ==
    IF channel_name \in DOMAIN chs
    THEN [channels |-> chs, raised |-> TRUE,
          err |-> <<"Channel ", Str(channel_name), " already exists">>]
    ELSE IF channel_name = None
    THEN [channels |-> chs, raised |-> TRUE, err |-> ChannelValidationError]
    ELSE [channels |-> (channel_name :> Channel(channel_name)) @@ chs,
          raised |-> FALSE, err |-> <<>>]

\* Mutants of Storage.get_message: popitem(last=True) instead of last=False;
\* the head read without being popped; the popped head not stored as unacked.
get_message_lifo(chs, channel_name) ==
    IF channel_name \notin DOMAIN chs
    THEN [channels |-> chs, result |-> <<>>]
    ELSE LET messages == chs[channel_name].ready_messages IN
         IF messages # <<>>
         THEN LET message == messages[Len(messages)] IN
              [channels |-> [chs EXCEPT
                   ![channel_name].ready_messages = SubSeq(messages, 1, Len(messages) - 1),
                   ![channel_name].unacked_messages = Append(@, message)],
               result |-> <<message>>]
         ELSE [channels |-> chs, result |-> <<>>]

get_message_peek(chs, channel_name) ==
    IF channel_name \notin DOMAIN chs
    THEN [channels |-> chs, result |-> <<>>]
    ELSE LET messages == chs[channel_name].ready_messages IN
         IF messages # <<>>
         THEN LET message == Head(messages) IN
              [channels |-> [chs EXCEPT
                   ![channel_name].unacked_messages =
                       IF message.id \in Ids(@) THEN @ ELSE Append(@, message)],
               result |-> <<message>>]
         ELSE [channels |-> chs, result |-> <<>>]

get_message_drop(chs, channel_name) ==
    IF channel_name \notin DOMAIN chs
    THEN [channels |-> chs, result |-> <<>>]
    ELSE LET messages == chs[channel_name].ready_messages IN
         IF messages # <<>>
         THEN [channels |-> [chs EXCEPT ![channel_name].ready_messages = Tail(messages)],
               result |-> <<Head(messages)>>]
         ELSE [channels |-> chs, result |-> <<>>]

\* Mutant of Storage.get_message: redelivery. When nothing is ready, the
\* unacked messages are taken back: the oldest is returned again and the rest
\* are moved to ready_messages.
get_message_redeliver(chs, channel_name) ==
    IF channel_name \notin DOMAIN chs
    THEN [channels |-> chs, result |-> <<>>]
    ELSE LET messages == chs[channel_name].ready_messages
             unacked == chs[channel_name].unacked_messages IN
         IF messages # <<>>
         THEN LET message == Head(messages) IN
              [channels |-> [chs EXCEPT
                   ![channel_name].ready_messages = Tail(messages),
                   ![channel_name].unacked_messages = Append(@, message)],
               result |-> <<message>>]
         ELSE IF unacked # <<>>
         THEN [channels |-> [chs EXCEPT
                   ![channel_name].ready_messages = Tail(unacked),
                   ![channel_name].unacked_messages = <<Head(unacked)>>],
               result |-> <<Head(unacked)>>]
         ELSE [channels |-> chs, result |-> <<>>]

\* Storage.get_message
get_message(chs, channel_name) ==
    IF channel_name \notin DOMAIN chs
    THEN [channels |-> chs, result |-> <<>>]
    ELSE LET messages == chs[channel_name].ready_messages IN
         IF messages # <<>>
         THEN LET message == Head(messages) IN
              [channels |-> [chs EXCEPT
                   ![channel_name].ready_messages = Tail(messages),
                   ![channel_name].unacked_messages = Append(@, message)],
               result |-> <<message>>]
         ELSE [channels |-> chs, result |-> <<>>]

\* Mutant of Storage.put_message: a missing channel is created on first publish.
put_message_autocreate(chs, channel_name, message) ==
    IF channel_name \in DOMAIN chs
    THEN [channels |-> [chs EXCEPT ![channel_name].ready_messages = Append(@, message)],
          raised |-> FALSE, err |-> <<>>]
    ELSE [channels |-> (channel_name :>
                           [Channel(channel_name) EXCEPT !.ready_messages = <<message>>]) @@ chs,
          raised |-> FALSE, err |-> <<>>]

\* Mutant of Storage.put_message: every channel shares one ready_messages
\* dict (the class-level default not copied per Channel), so a message put on
\* one channel is ready on all.
put_message_shared(chs, channel_name, message) ==
    IF channel_name \in DOMAIN chs
    THEN [channels |-> [k \in DOMAIN chs |->
                           [chs[k] EXCEPT !.ready_messages = Append(@, message)]],
          raised |-> FALSE, err |-> <<>>]
    ELSE [channels |-> chs, raised |-> TRUE,
          err |-> <<"Channel ", Str(channel_name), " does not exist">>]

\* Storage.put_message
put_message(chs, channel_name, message) ==
    IF channel_name \in DOMAIN chs
    THEN [channels |-> [chs EXCEPT ![channel_name].ready_messages = Append(@, message)],
          raised |-> FALSE, err |-> <<>>]
    ELSE [channels |-> chs, raised |-> TRUE,
          err |-> <<"Channel ", Str(channel_name), " does not exist">>]

\* Mutant of Storage.confirm_message: get() instead of pop(), nothing removed.
confirm_message_get(chs, channel_name, message_id) ==
    IF channel_name \notin DOMAIN chs
    THEN [channels |-> chs, result |-> <<>>]
    ELSE LET unacked == chs[channel_name].unacked_messages IN
         IF message_id \in Ids(unacked)
         THEN [channels |-> chs, result |-> <<unacked[IndexOf(unacked, message_id)]>>]
         ELSE [channels |-> chs, result |-> <<>>]

\* Storage.confirm_message
confirm_message(chs, channel_name, message_id) ==
    IF channel_name \notin DOMAIN chs
    THEN [channels |-> chs, result |-> <<>>]
    ELSE LET unacked == chs[channel_name].unacked_messages IN
         IF message_id \in Ids(unacked)
         THEN LET i == IndexOf(unacked, message_id) IN
              [channels |-> [chs EXCEPT
                   ![channel_name].unacked_messages = RemoveAt(unacked, i)],
               result |-> <<unacked[i]>>]
         ELSE [channels |-> chs, result |-> <<>>]

\* Storage.purge_channel_messages
purge_channel_messages(chs, channel_name) ==
    IF channel_name \in DOMAIN chs
    THEN [chs EXCEPT ![channel_name].ready_messages = <<>>,
                     ![channel_name].unacked_messages = <<>>]
    ELSE chs

\* The per-channel entry of Storage.get_stats.
ChannelStats(channel) ==
    [ready_messages |-> Len(channel.ready_messages),
     unacked_messages |-> Len(channel.unacked_messages),
     total |-> Len(channel.ready_messages) + Len(channel.unacked_messages)]

\* Truthiness of a channel-name value (None and "" are falsy).
Truthy(x) == x # None /\ x # ""

\* Mutant of Storage.get_stats: the all-channels branch skips the channels
\* whose name is falsy.
get_stats_truthy(chs, channel_name) ==
    IF channel_name = None
    THEN [n \in {chs[k].name : k \in {j \in DOMAIN chs : Truthy(j)}} |->
             ChannelStats(chs[CHOOSE k \in DOMAIN chs : chs[k].name = n])]
    ELSE IF Truthy(channel_name) /\ channel_name \in DOMAIN chs
    THEN channel_name :> ChannelStats(chs[channel_name])
    ELSE EmptyDict

\* Storage.get_stats
get_stats(chs, channel_name) ==
    IF channel_name = None
    THEN [n \in {chs[k].name : k \in DOMAIN chs} |->
             ChannelStats(chs[CHOOSE k \in DOMAIN chs : chs[k].name = n])]
    ELSE IF Truthy(channel_name) /\ channel_name \in DOMAIN chs
    THEN channel_name :> ChannelStats(chs[channel_name])
    ELSE EmptyDict

\* ------------------------------------------------------------------ Broker
\* Each handler yields the registry after the call and the Response returned.

\* Broker.register
register(chs, body) ==
    LET r == register_channel(chs, Get(body, "channel")) IN
    [channels |-> r.channels,
     response |-> IF r.raised
                  THEN [Response EXCEPT !.error = r.err]
                  ELSE [Response EXCEPT !.message =
                           <<"Channel ", Str(Get(body, "channel")), " successfully registred">>]]

\* Broker.send; id is the _id the new Message draws from uuid4.
send(chs, body, id) ==
    LET message == Message(id, body.data)
        r == put_message(chs, Get(body, "channel"), message) IN
    [channels |-> r.channels,
     response |-> IF r.raised
                  THEN [Response EXCEPT !.error = r.err]
                  ELSE [Response EXCEPT !.data = message.data, !.message_id = <<message.id>>]]

\* Mutant of Broker.read: the empty result reported in the error field.
read_error(chs, body) ==
    LET r == get_message(chs, Get(body, "channel")) IN
    [channels |-> r.channels,
     response |-> IF r.result # <<>>
                  THEN [Response EXCEPT !.data = r.result[1].data,
                                        !.message_id = <<r.result[1].id>>]
                  ELSE [Response EXCEPT !.error = <<"No messages in channel">>]]

\* Broker.read
read(chs, body) ==
    LET r == get_message(chs, Get(body, "channel")) IN
    [channels |-> r.channels,
     response |-> IF r.result # <<>>
                  THEN [Response EXCEPT !.data = r.result[1].data,
                                        !.message_id = <<r.result[1].id>>]
                  ELSE [Response EXCEPT !.message = <<"No messages in channel">>]]

\* Broker.confirm
confirm(chs, body) ==
    LET r == confirm_message(chs, Get(body, "channel"), Get(body, "message_id")) IN
    [channels |-> r.channels,
     response |-> IF r.result # <<>>
                  THEN [Response EXCEPT !.message = <<"Message confirmed!">>]
                  ELSE [Response EXCEPT !.message = <<"No such message">>]]

\* Broker.purge
purge(chs, body) ==
    [channels |-> purge_channel_messages(chs, Get(body, "channel")),
     response |-> [Response EXCEPT !.message = <<"Channel purged">>]]

\* Broker.stats
stats(chs, body) ==
    [channels |-> chs,
     response |-> [Response EXCEPT !.data = get_stats(chs, Get(body, "channel"))]]

\* The keys of the handlers table of Broker.route.
HandlerPaths == {"/register", "/send", "/read", "/confirm", "/purge", "/stats"}

\* Mutant of Broker.route: the text for an unknown path put in the message field.
route_message(chs, path, body, id) ==
    IF path \in HandlerPaths
    THEN CASE path = "/register" -> register(chs, body)
           [] path = "/send"     -> send(chs, body, id)
           [] path = "/read"     -> read(chs, body)
           [] path = "/confirm"  -> confirm(chs, body)
           [] path = "/purge"    -> purge(chs, body)
           [] path = "/stats"    -> stats(chs, body)
    ELSE [channels |-> chs, response |-> [Response EXCEPT !.message = <<"Unknown path">>]]

\* Broker.route: dispatch on the path, 'Unknown path' for any other.
route(chs, path, body, id) ==
    IF path \in HandlerPaths
    THEN CASE path = "/register" -> register(chs, body)
           [] path = "/send"     -> send(chs, body, id)
           [] path = "/read"     -> read(chs, body)
           [] path = "/confirm"  -> confirm(chs, body)
           [] path = "/purge"    -> purge(chs, body)
           [] path = "/stats"    -> stats(chs, body)
    ELSE [channels |-> chs, response |-> [Response EXCEPT !.error = <<"Unknown path">>]]

\* ------------------------------------------------------------------- state
VARIABLES
    channels,   \* Storage.channels: registered name -> Channel
    uuids,      \* how many ids uuid4 has produced
    request,    \* the request handled last: [path, body]
    response,   \* the Response returned for it
    published,  \* history: per name, the messages /send returned, in order
    consumed,   \* history: per name, the messages /read returned, in order
    acked,      \* history: per name, the ids /confirm confirmed
    purged,     \* history: per name, the ids a /purge discarded
    tasks       \* the calls of Broker.__call__ in progress: [pc, path, body, result]

vars == <<channels, uuids, request, response, published, consumed, acked, purged, tasks>>

\* A task slot with no call in progress.
Idle == [pc |-> "idle", path |-> "", body |-> EmptyDict, result |-> Response]

\* Broker.__init__ / Storage.__init__: an empty registry, nothing handled yet.
Init ==
    /\ channels = EmptyDict
    /\ uuids = 0
    /\ request = [path |-> "", body |-> EmptyDict]
    /\ response = Response
    /\ published = [n \in ChannelInputs |-> <<>>]
    /\ consumed = [n \in ChannelInputs |-> <<>>]
    /\ acked = [n \in ChannelInputs |-> {}]
    /\ purged = [n \in ChannelInputs |-> {}]
    /\ tasks = [t \in Tasks |-> Idle]

\* The ids held by channel n of registry chs (none when n is not registered).
Held(chs, n) ==
    IF n \in DOMAIN chs
    THEN Ids(chs[n].ready_messages) \cup Ids(chs[n].unacked_messages)
    ELSE {}

\* The message (id and payload) a /send or /read response carries.
Returned(resp) == Message(resp.message_id[1], resp.data)

\* Broker.__call__: the request (path, body) routed and answered. The Storage
\* methods contain no await, so the whole state change of a request is one
\* step.
Handle(path, body) ==
    LET id == Uuid[uuids + 1]
        n == Get(body, "channel")
        r == route(channels, path, body, id)
    IN  /\ channels' = r.channels
        /\ response' = r.response
        /\ uuids' = IF path = "/send" THEN uuids + 1 ELSE uuids
        /\ published' = IF path = "/send" /\ r.response.message_id # <<>>
                        THEN [published EXCEPT ![n] = Append(@, Returned(r.response))]
                        ELSE published
        /\ consumed' = IF path = "/read" /\ r.response.message_id # <<>>
                       THEN [consumed EXCEPT ![n] = Append(@, Returned(r.response))]
                       ELSE consumed
        /\ acked' = IF path = "/confirm" /\ r.response.message = <<"Message confirmed!">>
                    THEN [acked EXCEPT ![n] = @ \cup {body.message_id}]
                    ELSE acked
        /\ purged' = IF path = "/purge"
                     THEN [purged EXCEPT ![n] = @ \cup Held(channels, n)]
                     ELSE purged

\* Broker.route, path '/register'.
Register ==
    \E name \in ChannelInputs :
        /\ request' = [path |-> "/register", body |-> Body(name, EmptyDict)]
        /\ Handle(request'.path, request'.body)
        /\ UNCHANGED tasks

\* Broker.route, path '/send'. Every /send body carries a 'data' dict, so that
\* Message.model_validate (line 129) accepts it.
Send ==
    \E name \in ChannelInputs, data \in Payloads :
        /\ uuids < MaxMsgs
        /\ request' = [path |-> "/send", body |-> Body(name, [data |-> data])]
        /\ Handle(request'.path, request'.body)
        /\ UNCHANGED tasks

\* Broker.route, path '/read'.
Read ==
    \E name \in ChannelInputs :
        /\ request' = [path |-> "/read", body |-> Body(name, EmptyDict)]
        /\ Handle(request'.path, request'.body)
        /\ UNCHANGED tasks

\* Broker.route, path '/confirm'.
Confirm ==
    \E name \in ChannelInputs, id \in IdInputs :
        /\ request' = [path |-> "/confirm", body |-> Body(name, [message_id |-> id])]
        /\ Handle(request'.path, request'.body)
        /\ UNCHANGED tasks

\* Broker.route, path '/purge'.
Purge ==
    \E name \in ChannelInputs :
        /\ request' = [path |-> "/purge", body |-> Body(name, EmptyDict)]
        /\ Handle(request'.path, request'.body)
        /\ UNCHANGED tasks

\* Broker.route, path '/stats'.
Stats ==
    \E name \in ChannelInputs :
        /\ request' = [path |-> "/stats", body |-> Body(name, EmptyDict)]
        /\ Handle(request'.path, request'.body)
        /\ UNCHANGED tasks

\* Broker.route, any other path.
Unknown ==
    \E path \in UnknownPaths :
        /\ request' = [path |-> path, body |-> EmptyDict]
        /\ Handle(request'.path, request'.body)
        /\ UNCHANGED tasks

Next == Register \/ Send \/ Read \/ Confirm \/ Purge \/ Stats \/ Unknown

\* Spec: the requests handled one after the other.
Spec == Init /\ [][Next]_vars

\* -------------------------------------------------------- concurrent requests
\* Several calls of Broker.__call__ in progress on one event loop. A call can
\* be suspended where it awaits the server: at receive() in Broker.route and at
\* the two send() calls of Broker.__call__. The handler and the Storage method
\* it awaits contain no await on anything that suspends, so they run as one
\* step from the return of receive() to the first send().

\* The server calls app(scope, receive, send): the call runs up to receive().
Accept(t) ==
    /\ tasks[t].pc = "idle"
    /\ \E path \in ConcPaths, name \in ConcNames, data \in Payloads :
          tasks' = [tasks EXCEPT ![t] =
              [pc |-> "receive", path |-> path,
               body |-> Body(name, IF path = "/send" THEN [data |-> data] ELSE EmptyDict),
               result |-> Response]]
    /\ UNCHANGED <<channels, uuids, request, response, published, consumed, acked, purged>>

\* receive() returns: Broker.route parses the body and runs the handler, whose
\* Response is the result the call holds while it awaits the first send().
Dispatch(t) ==
    /\ tasks[t].pc = "receive"
    /\ tasks[t].path = "/send" => uuids < MaxMsgs
    /\ request' = [path |-> tasks[t].path, body |-> tasks[t].body]
    /\ Handle(request'.path, request'.body)
    /\ tasks' = [tasks EXCEPT ![t].pc = "start", ![t].result = response']

\* The first send() ('http.response.start') completes.
SendStart(t) ==
    /\ tasks[t].pc = "start"
    /\ tasks' = [tasks EXCEPT ![t].pc = "body"]
    /\ UNCHANGED <<channels, uuids, request, response, published, consumed, acked, purged>>

\* The second send() ('http.response.body') completes and the call returns.
SendBody(t) ==
    /\ tasks[t].pc = "body"
    /\ tasks' = [tasks EXCEPT ![t] = Idle]
    /\ UNCHANGED <<channels, uuids, request, response, published, consumed, acked, purged>>

NextConc == \E t \in Tasks : Accept(t) \/ Dispatch(t) \/ SendStart(t) \/ SendBody(t)

\* SpecConc: the requests interleaved at their suspension points.
SpecConc == Init /\ [][NextConc]_vars

\* ------------------------------------------------------------------ claims
IsPrefix(s, t) == Len(s) <= Len(t) /\ SubSeq(t, 1, Len(s)) = s

NoDuplicates(s) == \A i, j \in 1..Len(s) : s[i].id = s[j].id => i = j

\* The messages of channel n that a purge discarded before any /read returned them.
PurgedUnread(n) == purged[n] \ Ids(consumed[n])

\* The request handled last, and the one the next step handles.
ReqName == Get(request.body, "channel")
ReqName2 == Get(request'.body, "channel")

\* C1: FIFO delivery. On every channel the messages returned by the successive
\* non-empty /read responses are, id and payload, the messages /send published
\* on it, in publish order: the sequence read so far is a prefix of the
\* sequence published, whatever /read, /confirm and /send calls were
\* interleaved. (A purge removes the messages it discarded unread from the
\* published sequence; with no purge the published sequence is compared whole.)
C1_Fifo ==
    \A n \in ChannelInputs :
        IsPrefix(consumed[n],
                 SelectSeq(published[n], LAMBDA m : m.id \notin PurgedUnread(n)))

\* Three messages published on one channel, two of them read, no purge, and
\* the third published after the first read.
C1_Witness ==
    \E n \in Names :
        /\ purged[n] = {}
        /\ Len(published[n]) = 3
        /\ Len(consumed[n]) = 2
        /\ request.path = "/send"
        /\ n \in DOMAIN channels
        /\ Len(channels[n].ready_messages) = 1

\* C2: at-most-once consumption. No message id occurs twice among the ids the
\* /read responses of one channel have returned, over any sequence of
\* operations (purges and acknowledgements included).
C2_AtMostOnce == \A n \in ChannelInputs : NoDuplicates(consumed[n])

\* A /read has just returned a second message on a channel whose first
\* message was read and acknowledged before.
C2_Witness ==
    /\ request.path = "/read"
    /\ response.message_id # <<>>
    /\ Len(consumed[ReqName]) >= 2
    /\ acked[ReqName] # {}

\* C3: every live message id of a registered channel (published on it, and
\* neither acknowledged nor purged since) is in exactly one of ready_messages
\* and unacked_messages, and nothing else is in either.
Live(n) == Ids(published[n]) \ (acked[n] \cup purged[n])

C3_ExactlyOne ==
    \A n \in DOMAIN channels :
        /\ Ids(channels[n].ready_messages) \cap Ids(channels[n].unacked_messages) = {}
        /\ Ids(channels[n].ready_messages) \cup Ids(channels[n].unacked_messages) = Live(n)
        /\ NoDuplicates(channels[n].ready_messages)
        /\ NoDuplicates(channels[n].unacked_messages)

\* A channel holding a ready and an unacked message after another message of
\* it was acknowledged.
C3_Witness ==
    \E n \in DOMAIN channels :
        /\ channels[n].ready_messages # <<>>
        /\ channels[n].unacked_messages # <<>>
        /\ acked[n] # {}

\* C4: /confirm on a registered channel answers 'Message confirmed!' exactly
\* when the id is in the channel's unacked_messages, and then removes that one
\* message and nothing else; any other id (already acknowledged, still ready,
\* unknown) is answered 'No such message' with an empty error field and both
\* collections unchanged. Directly after the /read that returned the id the
\* confirm succeeds, and a confirm of an id confirmed before never succeeds.
C4_Step ==
    (request'.path = "/confirm" /\ ReqName2 \in DOMAIN channels) =>
        LET n == ReqName2
            id == request'.body.message_id
            unacked == channels[n].unacked_messages
        IN  /\ response'.error = <<>>
            /\ response'.message \in {<<"Message confirmed!">>, <<"No such message">>}
            /\ (response'.message = <<"Message confirmed!">>) <=> (id \in Ids(unacked))
            /\ id \in Ids(unacked) =>
                   /\ channels' = [channels EXCEPT ![n].unacked_messages =
                                      SelectSeq(unacked, LAMBDA m : m.id # id)]
                   /\ id \notin Ids(channels'[n].unacked_messages)
            /\ id \notin Ids(unacked) => channels' = channels
            /\ (id \in acked[n] \/ id \in Ids(channels[n].ready_messages)) =>
                   response'.message = <<"No such message">>
            /\ (request.path = "/read" /\ ReqName = n /\ response.message_id = <<id>>) =>
                   response'.message = <<"Message confirmed!">>

C4_Acknowledge == [][C4_Step]_vars

\* A confirm has just been refused for an id that an earlier confirm on the
\* same registered channel had acknowledged.
C4_Witness ==
    /\ request.path = "/confirm"
    /\ ReqName \in DOMAIN channels
    /\ response.message = <<"No such message">>
    /\ request.body.message_id \in acked[ReqName]

\* The counts a Stats response is expected to carry for channel n.
Counts(n, ready, unacked) ==
    n :> [ready_messages |-> ready, unacked_messages |-> unacked, total |-> ready + unacked]

\* C5: a /stats request naming a registered channel on which N messages were
\* published and K of them read, none acknowledged and none purged, is
\* answered with ready = N-K, unacked = K, total = N for that channel.
C5_StatsCounts ==
    (request.path = "/stats" /\ ReqName \in DOMAIN channels
        /\ acked[ReqName] = {} /\ purged[ReqName] = {}) =>
        response.data = Counts(ReqName,
                               Len(published[ReqName]) - Len(consumed[ReqName]),
                               Len(consumed[ReqName]))

\* C6: directly after a /purge of a registered channel both of its collections
\* are empty, a /stats request naming it reports all-zero counts, a /read
\* reports 'No messages in channel', and a /confirm of any id read from it
\* before reports 'No such message'.
C6_PurgeEmpties ==
    (request.path = "/purge" /\ ReqName \in DOMAIN channels) =>
        /\ channels[ReqName].ready_messages = <<>>
        /\ channels[ReqName].unacked_messages = <<>>
        /\ stats(channels, request.body).response.data = Counts(ReqName, 0, 0)
        /\ read(channels, request.body).response.message = <<"No messages in channel">>
        /\ \A id \in Ids(consumed[ReqName]) :
               confirm(channels, Body(ReqName, [message_id |-> id])).response.message
                   = <<"No such message">>

\* C7: a /register of a string name that is not registered adds exactly that
\* name with empty ready_messages and unacked_messages and leaves the other
\* channels alone; a /register of a registered name is answered with the
\* 'already exists' error and changes neither the registry nor any channel.
C7_Step ==
    (request'.path = "/register" /\ ReqName2 \in Names) =>
        IF ReqName2 \in DOMAIN channels
        THEN /\ response'.error = <<"Channel ", ReqName2, " already exists">>
             /\ response'.message = <<>>
             /\ channels' = channels
        ELSE /\ DOMAIN channels' = DOMAIN channels \cup {ReqName2}
             /\ channels'[ReqName2] =
                    [name |-> ReqName2, ready_messages |-> <<>>, unacked_messages |-> <<>>]
             /\ \A k \in DOMAIN channels : channels'[k] = channels[k]
             /\ response'.error = <<>>
             /\ response'.message = <<"Channel ", ReqName2, " successfully registred">>

C7_Register == [][C7_Step]_vars

\* A second registration of a channel that holds a ready and an unacked
\* message has just been refused.
C7_Witness ==
    /\ request.path = "/register"
    /\ response.error # <<>>
    /\ ReqName \in DOMAIN channels
    /\ channels[ReqName].ready_messages # <<>>
    /\ channels[ReqName].unacked_messages # <<>>

\* C8: a /send naming a channel that is not registered is answered with the
\* 'does not exist' error and no message id, and changes neither the registry
\* nor any channel.
C8_Step ==
    (request'.path = "/send" /\ ReqName2 \notin DOMAIN channels) =>
        /\ response'.error = <<"Channel ", Str(ReqName2), " does not exist">>
        /\ response'.message_id = <<>>
        /\ response'.data = EmptyDict
        /\ channels' = channels

C8_SendMissing == [][C8_Step]_vars

\* A /send to an unregistered string name has just been refused while another
\* channel holds messages.
C8_Witness ==
    /\ request.path = "/send"
    /\ ReqName \in Names \ DOMAIN channels
    /\ response.error # <<>>
    /\ \E k \in DOMAIN channels : Held(channels, k) # {}

\* C9: a /read naming a channel that is not registered is answered with an
\* error, and not with the 'No messages in channel' result that reading an
\* empty registered channel gives.
C9_ReadMissing ==
    (request.path = "/read" /\ ReqName \notin DOMAIN channels) =>
        /\ response.error # <<>>
        /\ response.message # <<"No messages in channel">>

\* C10: a /confirm naming a channel that is not registered is answered with an
\* error, and not with the 'No such message' result that confirming an unknown
\* id on a registered channel gives.
C10_ConfirmMissing ==
    (request.path = "/confirm" /\ ReqName \notin DOMAIN channels) =>
        /\ response.error # <<>>
        /\ response.message # <<"No such message">>

\* C11: a /purge naming a channel that is not registered is answered with an
\* error and not with the 'Channel purged' success message, and changes
\* neither the registry nor any channel.
C11_Step ==
    (request'.path = "/purge" /\ ReqName2 \notin DOMAIN channels) =>
        /\ response'.error # <<>>
        /\ response'.message # <<"Channel purged">>
        /\ channels' = channels

C11_PurgeMissing == [][C11_Step]_vars

\* C12: a /stats request naming a channel that is not registered is answered
\* with an error, and not with empty data.
C12_StatsMissing ==
    (request.path = "/stats" /\ ReqName # None /\ ReqName \notin DOMAIN channels) =>
        response.error # <<>>

\* Where message id is in channel n of registry chs.
Loc(chs, n, id) ==
    IF n \notin DOMAIN chs THEN "none"
    ELSE IF id \in Ids(chs[n].ready_messages) THEN "ready"
    ELSE IF id \in Ids(chs[n].unacked_messages) THEN "unacked"
    ELSE "none"

\* Every message id the broker can issue.
AllIds == {Uuid[i] : i \in 1..MaxMsgs}

\* C13: message lifecycle. In every step and for every message id of every
\* channel: a ready message stays ready, or becomes unacked by the /read of
\* its channel that returns it, or is destroyed by a /purge of its channel; an
\* unacked message stays unacked, or is destroyed by the /confirm of its
\* channel that names it or by a /purge of its channel, and never becomes
\* ready again; a destroyed message stays destroyed; a message enters a
\* channel only as ready, by the /send that returns its id.
C13_Step ==
    \A n \in Names, id \in AllIds :
        LET before == Loc(channels, n, id)
            after == Loc(channels', n, id)
            path == request'.path
            here == ReqName2 = n
        IN  /\ before = "ready" =>
                \/ after = "ready"
                \/ after = "unacked" /\ path = "/read" /\ here
                                     /\ response'.message_id = <<id>>
                \/ after = "none" /\ path = "/purge" /\ here
            /\ before = "unacked" =>
                \/ after = "unacked"
                \/ after = "none" /\ path = "/confirm" /\ here
                                  /\ request'.body.message_id = id
                \/ after = "none" /\ path = "/purge" /\ here
            /\ (before = "none" /\ id \in Ids(published[n])) => after = "none"
            /\ (before = "none" /\ id \notin Ids(published[n])) =>
                \/ after = "none"
                \/ after = "ready" /\ path = "/send" /\ here
                                   /\ response'.message_id = <<id>>

C13_Lifecycle == [][C13_Step]_vars

\* A /read has just found nothing ready on a channel that still holds two
\* unacked messages and had another message acknowledged: the unacked
\* messages were not handed out again.
C13_Witness ==
    /\ request.path = "/read"
    /\ ReqName \in DOMAIN channels
    /\ response.message = <<"No messages in channel">>
    /\ channels[ReqName].ready_messages = <<>>
    /\ Len(channels[ReqName].unacked_messages) = 2
    /\ acked[ReqName] # {}

\* Task t holds the result of its handler and has not yet returned.
Answered(t) == tasks[t].pc \in {"start", "body"}

\* The step in which task t runs its handler.
Dispatched(t) == tasks[t].pc = "receive" /\ tasks'[t].pc = "start"

\* The channel name of task t's request.
TaskName(t) == Get(tasks[t].body, "channel")

\* C14: under every interleaving of the calls in progress, two /read calls on
\* the same channel that are in progress together never hold the same message
\* id as their result, every message a call holds was moved to
\* unacked_messages or destroyed since and is no longer ready, and no id is
\* returned by two reads of a channel at all.
C14_ConcurrentRead ==
    /\ \A t1, t2 \in Tasks :
          (/\ t1 # t2
           /\ Answered(t1) /\ Answered(t2)
           /\ tasks[t1].path = "/read" /\ tasks[t2].path = "/read"
           /\ TaskName(t1) = TaskName(t2)
           /\ tasks[t1].result.message_id # <<>>) =>
              tasks[t1].result.message_id # tasks[t2].result.message_id
    /\ \A t \in Tasks :
          (Answered(t) /\ tasks[t].path = "/read" /\ tasks[t].result.message_id # <<>>) =>
              Loc(channels, TaskName(t), tasks[t].result.message_id[1]) # "ready"
    /\ \A n \in ChannelInputs : NoDuplicates(consumed[n])

\* Two /read calls on the same channel, both still in progress, each holding
\* a message.
C14_Witness ==
    \E t1, t2 \in Tasks :
        /\ t1 # t2
        /\ tasks[t1].pc = "start" /\ tasks[t2].pc = "start"
        /\ tasks[t1].path = "/read" /\ tasks[t2].path = "/read"
        /\ TaskName(t1) = TaskName(t2)
        /\ tasks[t1].result.message_id # <<>>
        /\ tasks[t2].result.message_id # <<>>

\* C15: under every interleaving, a /register call whose handler runs succeeds
\* exactly when the name is not yet registered, the name is registered from
\* then on, and a refused call changes no channel, so that no message held by
\* the channel is lost; of two /register calls of one name in progress
\* together at most one holds a success, and the one whose handler ran first
\* on an unregistered name holds it.
C15_Step ==
    /\ DOMAIN channels \subseteq DOMAIN channels'
    /\ \A t \in Tasks :
          (Dispatched(t) /\ tasks[t].path = "/register") =>
              LET n == TaskName(t) IN
              /\ (tasks'[t].result.error = <<>>) <=> (n \notin DOMAIN channels)
              /\ n \in DOMAIN channels'
              /\ n \in DOMAIN channels =>
                    /\ tasks'[t].result.error = <<"Channel ", n, " already exists">>
                    /\ channels' = channels
              /\ \A k \in DOMAIN channels : channels'[k] = channels[k]
    /\ \A t1, t2 \in Tasks :
          (/\ t1 # t2
           /\ tasks'[t1].pc \in {"start", "body"} /\ tasks'[t2].pc \in {"start", "body"}
           /\ tasks'[t1].path = "/register" /\ tasks'[t2].path = "/register"
           /\ Get(tasks'[t1].body, "channel") = Get(tasks'[t2].body, "channel")) =>
              ~ (tasks'[t1].result.error = <<>> /\ tasks'[t2].result.error = <<>>)

C15_ConcurrentRegister == [][C15_Step]_vars

\* Two /register calls of the same name, both still in progress: one holds the
\* success message and the other the 'already exists' error.
C15_Witness ==
    \E t1, t2 \in Tasks :
        /\ t1 # t2
        /\ Answered(t1) /\ Answered(t2)
        /\ tasks[t1].path = "/register" /\ tasks[t2].path = "/register"
        /\ TaskName(t1) = TaskName(t2)
        /\ tasks[t1].result.error = <<>>
        /\ tasks[t2].result.error = <<"Channel ", TaskName(t2), " already exists">>

\* C16: a /read naming a registered channel with nothing ready is answered in
\* the step that handles it (the handler has no guard and waits for no /send)
\* with 'No messages in channel' in the message field, the error, data and
\* message_id fields empty, and it leaves the registry and every channel
\* unchanged.
C16_Step ==
    (/\ request'.path = "/read"
     /\ ReqName2 \in DOMAIN channels
     /\ channels[ReqName2].ready_messages = <<>>) =>
        /\ response'.message = <<"No messages in channel">>
        /\ response'.error = <<>>
        /\ response'.data = EmptyDict
        /\ response'.message_id = <<>>
        /\ channels' = channels

\* The handler run on any registered channel with nothing ready returns at
\* once with that result.
C16_Returns ==
    \A n \in DOMAIN channels :
        channels[n].ready_messages = <<>> =>
            read(channels, Body(n, EmptyDict)) =
                [channels |-> channels,
                 response |-> [data |-> EmptyDict, message |-> <<"No messages in channel">>,
                               error |-> <<>>, message_id |-> <<>>]]

C16_ReadEmpty == [][C16_Returns /\ C16_Step]_vars

\* A /read has just been answered 'No messages in channel' on a registered
\* channel that has nothing ready and nothing was ever published on.
C16_Witness ==
    /\ request.path = "/read"
    /\ ReqName \in DOMAIN channels
    /\ channels[ReqName].ready_messages = <<>>
    /\ published[ReqName] = <<>>
    /\ response.message = <<"No messages in channel">>
    /\ response.error = <<>>

\* C17: a request whose path is not a key of the handlers table is answered
\* with a Response whose only non-default field is error, and changes neither
\* the registry, nor any channel, nor the count of ids issued.
C17_Step ==
    (request'.path \notin HandlerPaths) =>
        /\ response'.error # <<>>
        /\ response'.data = EmptyDict
        /\ response'.message = <<>>
        /\ response'.message_id = <<>>
        /\ channels' = channels
        /\ uuids' = uuids

C17_UnknownPath == [][C17_Step]_vars

\* An unknown path has just been answered while a channel holds a ready and
\* an unacked message.
C17_Witness ==
    /\ request.path \in UnknownPaths
    /\ response.error = <<"Unknown path">>
    /\ \E n \in DOMAIN channels :
          channels[n].ready_messages # <<>> /\ channels[n].unacked_messages # <<>>

\* C18: a /stats request with no channel name is answered with one entry for
\* every registered channel and for no other name, keyed by the channel name,
\* holding the lengths of that channel's ready_messages and unacked_messages
\* and their sum as total; no /stats request changes the registry, a channel
\* or the count of ids issued.
C18_Step ==
    (request'.path = "/stats") =>
        /\ channels' = channels
        /\ uuids' = uuids
        /\ ReqName2 = None =>
              /\ response'.error = <<>>
              /\ DOMAIN response'.data = DOMAIN channels
              /\ \A n \in DOMAIN channels :
                    /\ response'.data[n].ready_messages = Len(channels[n].ready_messages)
                    /\ response'.data[n].unacked_messages = Len(channels[n].unacked_messages)
                    /\ response'.data[n].total =
                           response'.data[n].ready_messages + response'.data[n].unacked_messages
                    /\ DOMAIN response'.data[n] = {"ready_messages", "unacked_messages", "total"}

C18_StatsAll == [][C18_Step]_vars

\* A /stats request with no name has just been answered for two registered
\* channels, one of which holds a ready and an unacked message.
C18_Witness ==
    /\ request.path = "/stats"
    /\ ReqName = None
    /\ DOMAIN channels = Names
    /\ DOMAIN response.data = Names
    /\ \E n \in Names : response.data[n].ready_messages = 1
                        /\ response.data[n].unacked_messages = 1

\* C19: a /stats request naming a registered channel, whatever its name (the
\* empty string included), is answered with exactly one entry, keyed by that
\* name, holding that channel's ready, unacked and total counts.
C19_StatsNamed ==
    (request.path = "/stats" /\ ReqName \in DOMAIN channels) =>
        response.data =
            (ReqName :> [ready_messages |-> Len(channels[ReqName].ready_messages),
                         unacked_messages |-> Len(channels[ReqName].unacked_messages),
                         total |-> Len(channels[ReqName].ready_messages)
                                   + Len(channels[ReqName].unacked_messages)])

\* C20: channel isolation. A /send, /read, /confirm or /purge changes no
\* channel other than the one it names and registers none; a /register of a
\* new name adds that channel with both collections empty and changes no
\* other; and no message id is ever held by two channels.
C20_Step ==
    /\ (request'.path \in {"/send", "/read", "/confirm", "/purge"}) =>
          /\ DOMAIN channels' = DOMAIN channels
          /\ \A k \in DOMAIN channels : k # ReqName2 => channels'[k] = channels[k]
    /\ (request'.path = "/register" /\ ReqName2 \in Names \ DOMAIN channels) =>
          /\ channels'[ReqName2].ready_messages = <<>>
          /\ channels'[ReqName2].unacked_messages = <<>>
          /\ \A k \in DOMAIN channels : channels'[k] = channels[k]
    /\ \A k1, k2 \in DOMAIN channels' :
          k1 # k2 => Held(channels', k1) \cap Held(channels', k2) = {}

C20_Isolation == [][C20_Step]_vars

\* A second channel has just been registered, empty, while the first holds a
\* ready and an unacked message.
C20_Witness ==
    /\ request.path = "/register"
    /\ response.error = <<>>
    /\ Held(channels, ReqName) = {}
    /\ \E k \in DOMAIN channels :
          /\ k # ReqName
          /\ channels[k].ready_messages # <<>>
          /\ channels[k].unacked_messages # <<>>

====
